---- MODULE Spec2Model ----
(***************************************************************************)
(* The training loop of train.py (main, lines 96-216): the epoch and batch *)
(* loop, the periodic checkpoint, the evaluation block with the best-model *)
(* decision and its checkpoint tag, and the patience-driven learning-rate  *)
(* decay.  The trainer object (CurriculumLearningTrainer) is not part of   *)
(* train.py; its update_best_eval_result, update_learning_rate, save and   *)
(* resume behaviour follow the design document (sections 3, 4.3, 4.4, 6).  *)
(*                                                                         *)
(* A behaviour is one fresh run (start_epoch = 0, nothing restored) that   *)
(* may be stopped right after any checkpoint it wrote and resumed from     *)
(* that checkpoint with a --start-epoch of the user's choice.              *)
(***************************************************************************)
EXTENDS Integers, Sequences, FiniteSets, TLC

\* ---------------------------------------------------------------- bounds
\* args.train.epochs of the modelled configuration
MaxEpochs == 11
\* metric values are drawn from 0..MaxVal (higher is better)
MaxVal == 1
\* args.train.lr_schedule_patience is drawn from 0..MaxPatience
MaxPatience == 1

\* ------------------------------------------------------ program constants
\* train.py:163  (epoch + 1) % 10
SaveInterval == 10
\* train.py:157  total_steps % 100
LogInterval == 100
\* '%g' keeps six significant digits (train.py:203)
GDigits == 6
\* the learning rate a fresh run starts with, in integer units
LrInit == 1048576

\* len(trainer.training_dataset): the batches of one epoch (19 puts the log
\* lines of steps 100 and 200 in the middle of epochs 5 and 10)
StepsChoices == {1, 19}
\* the --start-epoch values a resumed run is given: the default, the epoch
\* after the first, the epoch after the first periodic checkpoint, and the
\* configured number of epochs (an empty loop)
StartChoices == {0, 1, SaveInterval, MaxEpochs}
\* the tracked metrics, in the iteration order of trainer.best_eval
MetricChoices == {<<"psnr">>, <<"psnr", "ssim">>}

VARIABLES
    metrics,          \* names of the tracked metrics (keys of best_eval)
    steps_per_epoch,  \* train.py:140
    patience,         \* args.train.lr_schedule_patience
    resumed,          \* TRUE in a run started with --resume
    start_epoch,      \* trainer.start_epoch
    pc,               \* position in main's loop
    epoch,            \* loop variable of line 148
    i,                \* batches of this epoch already trained
    total_steps,      \* train.py:141,156
    logged,           \* total_steps of the last loss-log line (0: none)
    mode,             \* "TRAIN" | "EVAL" (set_train / set_eval)
    grad_enabled,     \* FALSE inside torch.no_grad()
    eval_result,      \* snapshot of this epoch (<< >> before evaluation)
    best_epoch,       \* trainer.best_epoch
    best_eval,        \* trainer.best_eval (<< >> before the first evaluation)
    lr,               \* trainer.lr
    prior,            \* best_epoch, best_eval as update_best found them
    improved,         \* update_best replaced the best in this epoch
    saved,            \* checkpoints written in this epoch, in order
    now,              \* time(), counted in batch durations since the start
    iter_start_time,  \* train.py:150
    log_t,            \* the elapsed time t printed in the last log line
    log_time,         \* time() when the last log line was printed
    curriculum_resets,\* calls of reset_curriculum_for_dataloader in this run
    prev_decayed,     \* the previous epoch of this run decayed the rate
    decay_balance     \* decays of this run minus its closed stale epochs

vars == <<metrics, steps_per_epoch, patience, resumed, start_epoch, pc, epoch,
          i, total_steps, logged, mode, grad_enabled, eval_result, best_epoch,
          best_eval, lr, prior, improved, saved, now, iter_start_time, log_t,
          log_time, curriculum_resets, prev_decayed, decay_balance>>

config == <<metrics, steps_per_epoch, patience>>

\* the clock and what the log lines hold of it
timing == <<now, iter_start_time, log_t, log_time>>

\* the counters kept over a run
counts == <<curriculum_resets, prev_decayed, decay_balance>>

\* the empty mapping
Empty == << >>

NoPrior == [best_epoch |-> 0, best_eval |-> Empty]

KeySet(ms) == {ms[n] : n \in 1..Len(ms)}

Values == 0..MaxVal

\* ------------------------------------------------------------ pure helpers
RECURSIVE Pow10(_)
Pow10(n) == IF n = 0 THEN 1 ELSE 10 * Pow10(n - 1)

RECURSIVE NumDigits(_)
NumDigits(n) == IF n < 10 THEN 1 ELSE 1 + NumDigits(n \div 10)

\* str(n) for a natural number
Str(n) == ToString(n)

\* the decimal digits of m without its trailing zeros ("" for 0)
RECURSIVE StripZeros(_)
StripZeros(m) ==
    IF m = 0 THEN ""
    ELSE IF m % 10 = 0 THEN StripZeros(m \div 10)
    ELSE Str(m)

\* '%g' % n for a natural n: n itself below 10^6, else six significant
\* digits (round half to even) in exponent form, trailing zeros removed
FormatG(n) ==
    IF n < Pow10(GDigits) THEN Str(n)
    ELSE
        LET e0    == NumDigits(n) - 1
            scale == Pow10(e0 - (GDigits - 1))
            q     == n \div scale
            r     == n % scale
            up    == (2 * r > scale) \/ (2 * r = scale /\ q % 2 = 1)
            m0    == IF up THEN q + 1 ELSE q
            over  == m0 = Pow10(GDigits)
            m     == IF over THEN m0 \div 10 ELSE m0
            e     == IF over THEN e0 + 1 ELSE e0
            lead  == m \div Pow10(GDigits - 1)
            frac  == m % Pow10(GDigits - 1)
            pad   == (GDigits - 1) - NumDigits(frac)
            RECURSIVE Rep(_)
            Rep(k) == IF k = 0 THEN "" ELSE "0" \o Rep(k - 1)
        IN  Str(lead)
            \o (IF frac = 0 THEN "" ELSE "." \o Rep(pad) \o StripZeros(frac))
            \o "e+" \o (IF e < 10 THEN "0" ELSE "") \o Str(e)

\* sep.join(names)
RECURSIVE Join(_, _)
Join(names, sep) ==
    IF names = <<>> THEN ""
    ELSE IF Len(names) = 1 THEN names[1]
    ELSE names[1] \o sep \o Join(Tail(names), sep)

\* [k for k in ms if a[k] == b[k]], keeping the order of ms
RECURSIVE Filter(_, _, _)
Filter(ms, a, b) ==
    IF ms = <<>> THEN <<>>
    ELSE (IF a[ms[1]] = b[ms[1]] THEN <<ms[1]>> ELSE <<>>)
         \o Filter(Tail(ms), a, b)

\* a CheckpointRecord: the tag, and what it was written under
Record(tag, reason) ==
    [tag |-> tag, reason |-> reason, epoch |-> epoch, lr |-> lr,
     best_epoch |-> best_epoch]

\* --------------------------------------------------------------- the loop
\* variant: the call of line 142 left out
ResetCurriculumSkipped(n) == n

\* line 142: trainer.reset_curriculum_for_dataloader(), n calls before it
ResetCurriculum(n) == n + 1

\* variant: set_eval called where set_train belongs
SetTrainAsEval == "EVAL"

\* lines 135, 199: trainer.set_train()
SetTrain == "TRAIN"

\* line 172: trainer.set_eval()
SetEval == "EVAL"

\* variant: the range with its end included
LoopAtInclusive(e) == IF e <= MaxEpochs THEN "train" ELSE "done"

\* range(trainer.start_epoch, args.train.epochs): the position at epoch e
LoopAt(e) == IF e < MaxEpochs THEN "train" ELSE "done"

Init ==
    /\ metrics \in MetricChoices
    /\ steps_per_epoch \in StepsChoices
    /\ patience \in 0..MaxPatience
    /\ resumed = FALSE
    /\ start_epoch = 0
    /\ pc = LoopAt(0)
    /\ epoch = 0
    /\ i = 0
    /\ total_steps = 0
    /\ logged = 0
    /\ mode = SetTrain
    /\ grad_enabled = TRUE
    /\ eval_result = Empty
    /\ best_epoch = 0
    /\ best_eval = Empty
    /\ lr = LrInit
    /\ prior = NoPrior
    /\ improved = FALSE
    /\ saved = <<>>
    /\ now = 0
    /\ iter_start_time = 0
    /\ log_t = 0
    /\ log_time = 0
    /\ curriculum_resets = ResetCurriculum(0)
    /\ prev_decayed = FALSE
    /\ decay_balance = 0

\* variant: the steps counted from the start of the epoch
LogDuePerEpoch(n) == (i + 1) % LogInterval = 0

\* line 157: is a loss-log line due at global step n
LogDue(n) == n % LogInterval = 0

\* line 159: t = time() - iter_start_time
Elapsed(t, since) == t - since

\* lines 151-161: one batch, which takes one unit of time, and its log line
TrainStep ==
    /\ pc = "train"
    /\ i < steps_per_epoch
    /\ i' = i + 1
    /\ total_steps' = total_steps + 1
    /\ now' = now + 1
    /\ IF LogDue(total_steps + 1)
       THEN /\ logged' = total_steps + 1
            /\ log_t' = Elapsed(now + 1, iter_start_time)
            /\ log_time' = now + 1
       ELSE UNCHANGED <<logged, log_t, log_time>>
    /\ UNCHANGED <<config, resumed, start_epoch, pc, epoch, mode, grad_enabled,
                   eval_result, best_epoch, best_eval, lr, prior, improved,
                   saved, iter_start_time, counts>>

\* variant: the test of line 163 without the + 1
PeriodicDueNoPlusOne(e) == e % SaveInterval = 0

\* line 163: is the periodic checkpoint due
PeriodicDue(e) == (e + 1) % SaveInterval = 0

\* variant: the tag without the + 1
PeriodicTagLoopEpoch(e) == Str(e)

\* line 166: the tag of the periodic checkpoint
PeriodicTag(e) == Str(e + 1)

\* variant: lines 163-204 indented into the batch loop
BatchesDoneEarly(n, spe) == n >= 1

\* line 151: the for loop over the batches is exhausted
BatchesDone(n, spe) == n = spe

\* lines 163-166: the batches are exhausted; the periodic checkpoint
PeriodicSave ==
    /\ pc = "train"
    /\ BatchesDone(i, steps_per_epoch)
    /\ saved' = IF PeriodicDue(epoch)
                THEN Append(saved, Record(PeriodicTag(epoch), "periodic"))
                ELSE saved
    /\ pc' = "eval"
    /\ UNCHANGED <<config, resumed, start_epoch, epoch, i, total_steps, logged,
                   mode, grad_enabled, eval_result, best_epoch, best_eval, lr,
                   prior, improved, timing, counts>>

\* lines 169-173: enter no_grad, set_eval, reset_eval_result
EnterEval ==
    /\ pc = "eval"
    /\ grad_enabled' = FALSE
    /\ mode' = SetEval
    /\ eval_result' = Empty
    /\ pc' = "evaluate"
    /\ UNCHANGED <<config, resumed, start_epoch, epoch, i, total_steps, logged,
                   best_epoch, best_eval, lr, prior, improved, saved, timing,
                   counts>>

\* lines 174-179: the validation pass and its snapshot
Evaluate ==
    /\ pc = "evaluate"
    /\ \E snap \in [KeySet(metrics) -> Values] : eval_result' = snap
    /\ pc' = "update"
    /\ UNCHANGED <<config, resumed, start_epoch, epoch, i, total_steps, logged,
                   mode, grad_enabled, best_epoch, best_eval, lr, prior,
                   improved, saved, timing, counts>>

\* variant: every metric keeps its own maximum
UpdateBestPerMetric(e, snap, be, bv) ==
    IF bv = Empty \/ \E k \in DOMAIN snap : snap[k] > bv[k]
    THEN [best_epoch |-> e,
          best_eval |-> [k \in DOMAIN snap |->
                            IF bv # Empty /\ bv[k] > snap[k] THEN bv[k] ELSE snap[k]],
          improved |-> TRUE]
    ELSE [best_epoch |-> be, best_eval |-> bv, improved |-> FALSE]

\* trainer.update_best_eval_result(epoch, eval_result): the first snapshot
\* seeds the best; later ones replace it whole when any metric is strictly
\* better
UpdateBestEvalResult(e, snap, be, bv) ==
    IF bv = Empty \/ \E k \in DOMAIN snap : snap[k] > bv[k]
    THEN [best_epoch |-> e, best_eval |-> snap, improved |-> TRUE]
    ELSE [best_epoch |-> be, best_eval |-> bv, improved |-> FALSE]

\* line 181
UpdateBest ==
    /\ pc = "update"
    /\ LET u == UpdateBestEvalResult(epoch, eval_result, best_epoch, best_eval)
       IN  /\ best_epoch' = u.best_epoch
           /\ best_eval' = u.best_eval
           /\ improved' = u.improved
    /\ prior' = [best_epoch |-> best_epoch, best_eval |-> best_eval]
    /\ pc' = "best"
    /\ UNCHANGED <<config, resumed, start_epoch, epoch, i, total_steps, logged,
                   mode, grad_enabled, eval_result, lr, saved, timing,
                   counts>>

\* variant: the comparison of line 193 negated
BestKeyNotEqual(ms, bv, snap) ==
    IF Cardinality(DOMAIN bv) > 1
    THEN SelectSeq(ms, LAMBDA k : bv[k] # snap[k])
    ELSE ms

\* lines 190-196: the names that go into the tag
BestKey(ms, bv, snap) ==
    IF Cardinality(DOMAIN bv) > 1 THEN Filter(ms, bv, snap) ELSE ms

\* variant: the prefix without its underscore
BestTagNoUnderscore(names) == "best" \o Join(names, "_")

\* line 197: the tag of the best checkpoint
BestTag(names) == "best_" \o Join(names, "_")

\* variant: the epoch counted from one, as in lines 163-166
BestDueNextEpoch(e, be) == be = e + 1

\* line 189: is the best checkpoint due
BestDue(e, be) == be = e

\* variant: gradient tracking switched back on by a statement at the end of
\* the block, which an exception skips
NoGradExitNormalOnly(raised) == ~raised

\* line 169: torch.no_grad() gives gradient tracking back when the block is
\* left, by its end or by an exception
NoGradExit(raised) == TRUE

\* lines 189-199: the best checkpoint, then set_train and the end of no_grad
SaveBest ==
    /\ pc = "best"
    /\ saved' = IF BestDue(epoch, best_epoch)
                THEN Append(saved,
                            Record(BestTag(BestKey(metrics, best_eval,
                                                   eval_result)),
                                   "best"))
                ELSE saved
    /\ mode' = SetTrain
    /\ grad_enabled' = NoGradExit(FALSE)
    /\ pc' = "lr"
    /\ UNCHANGED <<config, resumed, start_epoch, epoch, i, total_steps, logged,
                   eval_result, best_epoch, best_eval, lr, prior, improved,
                   timing, counts>>

\* lines 174-197: a call inside the evaluation block (evaluate,
\* update_best_eval_result, save) raises; the exception leaves the with
\* block and ends main
Fail ==
    /\ pc \in {"evaluate", "update", "best"}
    /\ grad_enabled' = NoGradExit(TRUE)
    /\ pc' = "failed"
    /\ UNCHANGED <<config, resumed, start_epoch, epoch, i, total_steps, logged,
                   mode, eval_result, best_epoch, best_eval, lr, prior,
                   improved, saved, timing, counts>>

\* variant: >= in place of >
DecayDueAtPatience(e, be, p) == (e - be) >= p

\* variant: the staleness measured against the best epoch as it was before
\* this epoch's update
DecayDueBeforeUpdate(e, be, p) == (e - prior.best_epoch) > p

\* variant: a decay only in the epoch in which the patience is first exceeded
DecayDueOnce(e, be, p) == (e - be) = p + 1

\* line 202: is a decay due
DecayDue(e, be, p) == (e - be) > p

\* lines 202-203: the staleness test and the pre-decay checkpoint
LrCheck ==
    /\ pc = "lr"
    /\ IF DecayDue(epoch, best_epoch, patience)
       THEN /\ saved' = Append(saved, Record("lastlr_" \o FormatG(lr), "lastlr"))
            /\ pc' = "decay"
       ELSE /\ saved' = saved
            /\ pc' = "end"
    /\ UNCHANGED <<config, resumed, start_epoch, epoch, i, total_steps, logged,
                   mode, grad_enabled, eval_result, best_epoch, best_eval, lr,
                   prior, improved, timing, counts>>

\* trainer.update_learning_rate(): the decay rule
UpdateLearningRate(l) == l \div 2

\* line 204
Decay ==
    /\ pc = "decay"
    /\ lr' = UpdateLearningRate(lr)
    /\ decay_balance' = decay_balance + 1
    /\ pc' = "end"
    /\ UNCHANGED <<config, resumed, start_epoch, epoch, i, total_steps, logged,
                   mode, grad_enabled, eval_result, best_epoch, best_eval,
                   prior, improved, saved, timing, curriculum_resets,
                   prev_decayed>>

\* line 148: the next value of range(start_epoch, epochs), or its end
NextEpoch ==
    /\ pc = "end"
    /\ epoch' = epoch + 1
    /\ i' = 0
    /\ pc' = LoopAt(epoch + 1)
    /\ eval_result' = Empty
    /\ prior' = NoPrior
    /\ improved' = FALSE
    /\ saved' = <<>>
    /\ iter_start_time' = IF LoopAt(epoch + 1) = "train"
                          THEN now ELSE iter_start_time
    /\ prev_decayed' = \E n \in 1..Len(saved) : saved[n].reason = "lastlr"
    /\ decay_balance' = IF epoch - best_epoch > patience
                        THEN decay_balance - 1 ELSE decay_balance
    /\ UNCHANGED <<config, resumed, start_epoch, total_steps, logged, mode,
                   grad_enabled, best_epoch, best_eval, lr, now, log_t,
                   log_time, curriculum_resets>>

\* a checkpoint was written by the last step
JustSaved ==
    /\ saved # <<>>
    /\ \/ pc = "eval"
       \/ pc = "lr" /\ saved[Len(saved)].reason = "best"
       \/ pc = "decay"

\* variant: the step counter starts from zero whatever the start epoch
FirstStepZero(k, n) == 0

\* line 141
FirstStep(k, n) == k * n

\* the run stops after a checkpoint and is started again with --resume on
\* that checkpoint and --start-epoch k (lines 60-66, 129-142): best_epoch,
\* best_eval and lr come back from the checkpoint, the counters from k
Resume(k) ==
    /\ ~resumed
    /\ JustSaved
    /\ resumed' = TRUE
    /\ start_epoch' = k
    /\ epoch' = k
    /\ i' = 0
    /\ total_steps' = FirstStep(k, steps_per_epoch)
    /\ logged' = 0
    /\ mode' = SetTrain
    /\ grad_enabled' = TRUE
    /\ pc' = LoopAt(k)
    /\ eval_result' = Empty
    /\ prior' = NoPrior
    /\ improved' = FALSE
    /\ saved' = <<>>
    /\ now' = 0
    /\ iter_start_time' = 0
    /\ log_t' = 0
    /\ log_time' = 0
    /\ curriculum_resets' = ResetCurriculum(0)
    /\ prev_decayed' = FALSE
    /\ decay_balance' = 0
    /\ UNCHANGED <<config, best_epoch, best_eval, lr>>

Next ==
    \/ TrainStep
    \/ PeriodicSave
    \/ EnterEval
    \/ Evaluate
    \/ UpdateBest
    \/ SaveBest
    \/ Fail
    \/ LrCheck
    \/ Decay
    \/ NextEpoch
    \/ \E k \in StartChoices : Resume(k)

Spec == Init /\ [][Next]_vars

\* the statements of the loop, which main runs one after the other
Step ==
    \/ TrainStep
    \/ PeriodicSave
    \/ EnterEval
    \/ Evaluate
    \/ UpdateBest
    \/ SaveBest
    \/ LrCheck
    \/ Decay
    \/ NextEpoch

\* one configuration: a single metric and one batch per epoch
LiveInit == Init /\ metrics = <<"psnr">> /\ steps_per_epoch = 1

\* main is sequential and its calls return: a statement that can run does
LiveSpec == LiveInit /\ [][Next]_vars /\ WF_vars(Step)

TypeOK ==
    /\ pc \in {"train", "eval", "evaluate", "update", "best", "lr", "decay",
               "end", "done", "failed"}
    /\ epoch \in 0..MaxEpochs
    /\ i \in 0..steps_per_epoch
    /\ mode \in {"TRAIN", "EVAL"}
    /\ best_epoch \in 0..MaxEpochs
    /\ lr \in 0..LrInit
    /\ Len(saved) <= 3

\* ------------------------------------------------------------- properties
\* the checkpoints of this epoch written for the given reason
SavedFor(reason) == {n \in 1..Len(saved) : saved[n].reason = reason}

\* the evaluation block of this epoch is over
AfterEval == pc \in {"lr", "decay", "end"}

\* the names whose snapshot value is strictly better than the value stored
\* before the update (all of them when nothing was stored)
RECURSIVE Better(_, _, _)
Better(ms, snap, old) ==
    IF ms = <<>> THEN <<>>
    ELSE (IF old = Empty \/ snap[ms[1]] > old[ms[1]] THEN <<ms[1]>> ELSE <<>>)
         \o Better(Tail(ms), snap, old)

\* C1: best_epoch never decreases, and it changes only in an update whose
\* snapshot is strictly better than the stored best on at least one metric.
C1_BestEpochForward ==
    [][/\ best_epoch' >= best_epoch
       /\ best_epoch' # best_epoch =>
             /\ pc = "update"
             /\ best_eval # Empty
             /\ \E k \in DOMAIN best_eval : eval_result[k] > best_eval[k]]_vars

C3_DecayAfterSave ==
    [][/\ (pc = "lr" /\ resumed' = resumed) =>
             ((pc' = "decay") <=> (epoch - best_epoch > patience))
       /\ (pc = "lr" /\ pc' = "decay") =>
             /\ lr' = lr
             /\ Len(saved') = Len(saved) + 1
             /\ saved'[Len(saved')].reason = "lastlr"
             /\ saved'[Len(saved')].tag = "lastlr_" \o FormatG(lr)
             /\ saved'[Len(saved')].lr = lr
       /\ lr' # lr =>
             /\ pc = "decay"
             /\ saved' = saved
             /\ saved[Len(saved)].reason = "lastlr"
             /\ saved[Len(saved)].tag = "lastlr_" \o FormatG(lr)
             /\ saved[Len(saved)].lr = lr]_vars

\* C3 witness: a decay was applied after its checkpoint, whose record holds
\* a learning rate above the current one.
C3_Witness ==
    /\ pc = "end"
    /\ SavedFor("lastlr") # {}
    /\ \A n \in SavedFor("lastlr") : saved[n].lr > lr
    /\ epoch - best_epoch > patience

\* C4: once the batches of an epoch are done, a periodic checkpoint has been
\* written in it exactly when (epoch + 1) % 10 = 0, and then exactly one,
\* whatever the evaluation and the decay decision of the epoch are; before
\* that point none has.
C4_PeriodicExactly ==
    /\ pc = "train" => SavedFor("periodic") = {}
    /\ pc \in {"eval", "evaluate", "update", "best", "lr", "decay", "end"} =>
          /\ (SavedFor("periodic") # {}) <=> ((epoch + 1) % 10 = 0)
          /\ Cardinality(SavedFor("periodic")) <= 1

\* C4 witness: an epoch with a periodic checkpoint, no improvement and a
\* decay.
C4_Witness ==
    /\ pc = "end"
    /\ SavedFor("periodic") # {}
    /\ ~improved
    /\ SavedFor("lastlr") # {}

\* C5: in a fresh run and in a resumed one alike, the global step after i
\* batches of epoch e is e * steps_per_epoch + i, so a run resumed at
\* start_epoch = K continues the step sequence of the uninterrupted run.
C5_ResumeSameSteps ==
    total_steps = epoch * steps_per_epoch + i

\* C5 witness: a resumed run with start_epoch > 0, in its second epoch or
\* later, in the middle of the batches.
C5_Witness ==
    /\ resumed /\ start_epoch > 0 /\ epoch > start_epoch
    /\ pc = "train" /\ i > 0 /\ i < steps_per_epoch

\* C6: if no metric improved in the epoch's evaluation, no best checkpoint
\* is written in the epoch and best_epoch is as it was.
C6_NoBestWithoutImprovement ==
    (AfterEval /\ ~improved) =>
        /\ SavedFor("best") = {}
        /\ best_epoch = prior.best_epoch

\* C7: with one tracked metric every best checkpoint is tagged
\* best_<that metric>.
C7_SingleMetricTag ==
    Len(metrics) = 1 =>
        \A n \in SavedFor("best") : saved[n].tag = "best_" \o metrics[1]

\* C7 witness: one metric tracked and a best checkpoint tagged best_psnr.
C7_Witness ==
    /\ metrics = <<"psnr">>
    /\ \E n \in SavedFor("best") : saved[n].tag = "best_psnr"

\* C8: right after an update in which some metric was strictly better than
\* its stored value, best_epoch is the current epoch and best_eval equals
\* the snapshot on every key.
C8_OverwriteAll ==
    (pc = "best" /\ prior.best_eval # Empty
       /\ \E k \in DOMAIN eval_result : eval_result[k] > prior.best_eval[k]) =>
        /\ best_epoch = epoch
        /\ DOMAIN best_eval = DOMAIN eval_result
        /\ \A k \in DOMAIN eval_result : best_eval[k] = eval_result[k]

\* C8 witness: one metric improved, another got worse, and the stored value
\* of the worse one was overwritten too.
C8_Witness ==
    /\ pc = "best" /\ prior.best_eval # Empty
    /\ \E k \in DOMAIN eval_result : eval_result[k] > prior.best_eval[k]
    /\ \E k \in DOMAIN eval_result :
          /\ eval_result[k] < prior.best_eval[k]
          /\ best_eval[k] = eval_result[k]

\* C9: best_epoch <= current epoch in every state.
C9_BestNotAhead == best_epoch <= epoch

\* C10: in an epoch whose update set best_epoch to the current epoch, no
\* lastlr checkpoint is written, the decay position is not reached and lr
\* does not change.
C10_NoDecayWhenImproved ==
    [][improved =>
          /\ lr' = lr
          /\ pc' # "decay"
          /\ \A n \in 1..Len(saved') : saved'[n].reason # "lastlr"]_vars

\* C10 witness: an epoch that became the best has passed the staleness test
\* with patience 0.
C10_Witness ==
    /\ pc = "end" /\ improved /\ best_epoch = epoch /\ patience = 0
    /\ SavedFor("lastlr") = {}

\* C11: gradient tracking is off exactly inside the evaluation block; it is
\* on again wherever the block has been left, by its end or by an exception,
\* and every position at which a batch can be trained has it on and the
\* trainer in TRAIN mode.
C11_NoGradScope ==
    /\ (pc \in {"evaluate", "update", "best"}) <=> ~grad_enabled
    /\ pc = "failed" => grad_enabled
    /\ pc = "train" => (grad_enabled /\ mode = "TRAIN")

\* C11 witness: a call raised after the snapshot was taken, and gradient
\* tracking is on.
C11_Witness ==
    pc = "failed" /\ eval_result # Empty /\ grad_enabled

\* C12: the mode is TRAIN or EVAL; it is TRAIN wherever a batch is trained,
\* at the periodic save, at the staleness test, at the decay and at the end
\* of the epoch and of the loop, and EVAL throughout the evaluation.
C12_ModeTrainOrEval ==
    /\ mode \in {"TRAIN", "EVAL"}
    /\ pc \in {"train", "eval", "lr", "decay", "end", "done"} => mode = "TRAIN"
    /\ pc \in {"evaluate", "update", "best"} => mode = "EVAL"

\* C12 witness: the end of an epoch with a periodic save and a decay, in
\* TRAIN mode.
C12_Witness ==
    /\ pc = "end" /\ mode = "TRAIN"
    /\ SavedFor("periodic") # {} /\ SavedFor("lastlr") # {}
    /\ lr < saved[Len(saved)].lr

\* C13 as stated: after the first evaluation of a run, fresh or resumed,
\* best_epoch is its epoch, best_eval is its snapshot and a best checkpoint
\* has been written.
C13_FirstEvalSeeds ==
    (AfterEval /\ epoch = start_epoch) =>
        /\ best_epoch = epoch
        /\ best_eval = eval_result
        /\ SavedFor("best") # {}

\* C13 amended: after the first evaluation of a run started from scratch,
\* best_epoch is its epoch, best_eval is its snapshot, whatever its values,
\* and a best checkpoint has been written.
C13_FirstEvalSeedsFresh ==
    (~resumed /\ AfterEval /\ epoch = start_epoch) =>
        /\ best_epoch = epoch
        /\ best_eval = eval_result
        /\ SavedFor("best") # {}

\* C13 witness: the first evaluation of a fresh run gave the lowest values
\* and became the best.
C13_Witness ==
    /\ ~resumed /\ pc = "end" /\ epoch = 0
    /\ \A k \in DOMAIN eval_result : eval_result[k] = 0
    /\ best_eval = eval_result /\ SavedFor("best") # {}

\* C14: within a run the global step grows by one per batch; a log line is
\* written at a batch exactly when the new global step is a multiple of
\* 100, and then 100 steps after the previous line of the run, whatever
\* epochs lie between; the lines of a resumed run are at multiples of 100
\* above start_epoch * steps_per_epoch.
C14_LogEveryHundred ==
    [][resumed' = resumed =>
          /\ total_steps' # total_steps => total_steps' = total_steps + 1
          /\ (logged' # logged) <=>
                (total_steps' # total_steps /\ total_steps' % 100 = 0)
          /\ logged' # logged =>
                /\ logged' = total_steps'
                /\ logged' > start_epoch * steps_per_epoch
                /\ logged # 0 => logged' - logged = 100]_vars

\* C14 witness: the line of step 200 was written in the middle of an epoch.
C14_Witness ==
    /\ logged = 200 /\ total_steps = 200
    /\ pc = "train" /\ i > 0 /\ i < steps_per_epoch

\* C15, in a run started from scratch: the elapsed time of every log line
\* after the first is the time since the previous log line.
C15_ElapsedSinceLastLog ==
    [][(~resumed' /\ logged' # logged /\ logged # 0) =>
          log_t' = now' - log_time]_vars

\* C16 as stated, in a run started from scratch: the periodic checkpoint is
\* tagged with the decimal value of the loop's epoch variable.
C16_TagIsLoopEpoch ==
    ~resumed =>
        \A n \in SavedFor("periodic") : saved[n].tag = ToString(saved[n].epoch)

\* C16 amended: the periodic checkpoint is tagged with the decimal value of
\* the loop's epoch variable plus one, the number of epochs completed ("10"
\* in the epoch whose loop variable is 9).
C16_TagIsEpochPlusOne ==
    \A n \in SavedFor("periodic") :
        /\ saved[n].epoch = epoch
        /\ saved[n].tag = ToString(epoch + 1)
        /\ epoch = 9 => saved[n].tag = "10"

\* C16 witness: the checkpoint "10" written under loop epoch 9.
C16_Witness ==
    /\ epoch = 9
    /\ \E n \in SavedFor("periodic") : saved[n].tag = "10"

\* the loop has ended, by the end of the range or by an exception
Ended == pc \in {"done", "failed"}

\* C17: the loop starts at start_epoch; the epoch only moves from e to e + 1,
\* after all batches of e and its evaluation; a snapshot is taken only after
\* all batches and only once per epoch; the loop ends at epoch = epochs;
\* with start_epoch >= epochs nothing is trained, evaluated or saved; and
\* every run ends (at the end of the range, or by an exception).
C17_LoopTerminates ==
    /\ [](/\ epoch >= start_epoch
          /\ pc = "done" => epoch = MaxEpochs
          /\ start_epoch >= MaxEpochs =>
                /\ pc = "done"
                /\ total_steps = start_epoch * steps_per_epoch
                /\ now = 0
                /\ eval_result = Empty
                /\ saved = <<>>)
    /\ [][resumed' = resumed =>
             /\ epoch' # epoch =>
                   /\ epoch' = epoch + 1
                   /\ i = steps_per_epoch
                   /\ eval_result # Empty
             /\ (eval_result' # eval_result /\ eval_result' # Empty) =>
                   /\ eval_result = Empty
                   /\ i = steps_per_epoch
             /\ i' # i => (i' = i + 1 \/ (i' = 0 /\ epoch' = epoch + 1))]_vars
    /\ <>[]Ended

\* C17 witness: a fresh run has gone through all its epochs.
C17_Witness ==
    /\ ~resumed /\ pc = "done" /\ epoch = MaxEpochs
    /\ total_steps = MaxEpochs * steps_per_epoch

\* C18: in every state of a run, fresh or resumed, from before its first
\* batch on, the curriculum has been reset exactly once.
C18_CurriculumResetOnce == curriculum_resets = 1

\* C18 witness: a resumed run in its second epoch or later.
C18_Witness ==
    /\ resumed /\ epoch > start_epoch /\ pc = "train" /\ i > 0
    /\ curriculum_resets = 1

\* C19: the checkpoints of an epoch are written under that epoch, after all
\* its batches, in the order periodic, best, lastlr; the snapshot exists
\* only after all batches; a best checkpoint only after the update; a
\* lastlr checkpoint only after the evaluation block; and no checkpoint of
\* an epoch is left when the next one trains.
C19_OrderWithinEpoch ==
    LET rank(r) == CASE r = "periodic" -> 1 [] r = "best" -> 2 [] OTHER -> 3
    IN  /\ \A n \in 1..Len(saved) : saved[n].epoch = epoch
        /\ \A n, m \in 1..Len(saved) :
              n < m => rank(saved[n].reason) < rank(saved[m].reason)
        /\ saved # <<>> => (i = steps_per_epoch /\ pc # "train")
        /\ eval_result # Empty => i = steps_per_epoch
        /\ SavedFor("best") # {} => (eval_result # Empty /\ AfterEval)
        /\ SavedFor("lastlr") # {} => pc \in {"decay", "end"}
        /\ pc = "train" => (saved = <<>> /\ eval_result = Empty)

\* C19 witness: an epoch wrote its periodic checkpoint, then the lastlr
\* checkpoint, and decayed.
C19_Witness ==
    /\ pc = "end" /\ Len(saved) = 2
    /\ saved[1].reason = "periodic" /\ saved[2].reason = "lastlr"
    /\ eval_result # Empty /\ lr < saved[2].lr

\* C20: at the end of every epoch the decays of the run so far are as many
\* as its epochs so far with epoch - best_epoch > patience after the
\* update; and an epoch that follows an epoch with a decay, and is not the
\* best epoch itself, decays again.
C20_DecayEveryStaleEpoch ==
    /\ pc = "end" =>
          decay_balance = (IF epoch - best_epoch > patience THEN 1 ELSE 0)
    /\ pc # "end" => decay_balance = 0
    /\ (pc = "end" /\ prev_decayed /\ best_epoch # epoch) =>
          /\ SavedFor("lastlr") # {}
          /\ \A n \in SavedFor("lastlr") : lr < saved[n].lr

\* C20 witness: the second of two epochs in a row that decayed.
C20_Witness ==
    /\ pc = "end" /\ prev_decayed /\ SavedFor("lastlr") # {}
    /\ decay_balance = 1

====
